---------------------------- MODULE Spec2Model ----------------------------
(***************************************************************************)
(* A model of FiniteStateMachine (@polpware/fe-behavior),                  *)
(* src/esm2020/lib/state/finite-state-machine.mjs.                         *)
(*                                                                         *)
(* The builder collects states and transitions in two plain JavaScript     *)
(* objects, compiles them at start() into the delegate engine              *)
(* (dependencies['statemachine']) and afterwards forwards go() to it.      *)
(*                                                                         *)
(* JavaScript values are modelled as follows.                              *)
(*   - a string is a TLA+ string; concatenation is \o;                     *)
(*   - a function value (a callback, a listener, an error handler) is a    *)
(*     label, a string naming the function the caller passed;              *)
(*   - null is Null (the empty tuple) for object-valued fields; a field    *)
(*     holding null or a string holds Null or the one-element tuple of    *)
(*     the string;                                                         *)
(*   - a plain object used as a map ({}), whose keys JavaScript keeps in   *)
(*     insertion order, is the sequence of its own [key, value] entries;   *)
(*     a property read also finds the members inherited from               *)
(*     Object.prototype.                                                   *)
(*   - a thrown Error is recorded in last.outcome under the name the       *)
(*     specification gives to its kind (the code throws plain Error        *)
(*     objects that differ in their message only).                         *)
(***************************************************************************)
EXTENDS Naturals, Sequences, FiniteSets, TLC

VARIABLES
    impl,                     \* this._impl: Null, or the delegate engine
    initState,                \* this._initState: Null or <<name>>
    errorHandler,             \* this._errorHandler: "null" or a handler label
    stateConfiguration,       \* this._stateConfiguration: entries, insertion order
    transitionConfiguration,  \* this._transitionConfiguration: entries, insertion order
    handlers,                 \* this._handlers: own property name -> array
    last,                     \* the last call: operation, outcome, return value
    calls,                    \* the functions the last call invoked, in order
    caller,                   \* the strings and functions this caller passes in
    addedStates,              \* history: names for which addState returned
    addedTransitions,         \* history: <<from, to>> for which addTransition returned
    startCount,               \* history: number of start() calls that returned
    registered                \* history: per sequence, the listeners registered by
                              \* a call that returned and not unregistered since,
                              \* in the order of their registration

vars == <<impl, initState, errorHandler, stateConfiguration,
          transitionConfiguration, handlers, last, calls, caller,
          addedStates, addedTransitions, startCount, registered>>

\* The fields of the FiniteStateMachine object.
fields == <<impl, initState, errorHandler, stateConfiguration,
            transitionConfiguration, handlers>>

\* What the configuration operations write.
configuration == <<initState, errorHandler, stateConfiguration,
                   transitionConfiguration>>

history == <<addedStates, addedTransitions, startCount, registered>>

-----------------------------------------------------------------------------
(* Bounds of the model *)

\* At most this many transitions are declared in one run.
MaxTransitions == 2

-----------------------------------------------------------------------------
(* JavaScript values *)

Null == <<>>

\* An argument that was not passed.
Undefined == "undefined"

\* Members every plain object inherits from Object.prototype (all of them
\* functions, hence truthy); the list is the part the callers below use.
ObjectPrototypeKeys == {"constructor", "toString", "valueOf", "hasOwnProperty"}

\* obj.hasOwnProperty(key)
hasOwnProperty(obj, key) == \E i \in 1..Len(obj) : obj[i].key = key

\* The own value of obj[key], for an own key.
ownValue(obj, key) == obj[CHOOSE i \in 1..Len(obj) : obj[i].key = key].value

\* Whether the expression obj[key] is truthy, for a map created as {} whose
\* own values are objects: an own entry, or a member of Object.prototype.
truthyLookup(obj, key) == hasOwnProperty(obj, key) \/ key \in ObjectPrototypeKeys

\* String.prototype.toUpperCase on one character.
toUpperCase(c) ==
    CASE c = "a" -> "A" [] c = "b" -> "B" [] c = "c" -> "C"
      [] c = "s" -> "S" [] c = "t" -> "T"
      [] OTHER -> c

\* captialize(value): value.charAt(0).toUpperCase() + value.slice(1)
captialize(value) ==
    IF value = "" THEN "" ELSE toUpperCase(Head(value)) \o Tail(value)


\* An array that takes a new element at its front (Array.prototype.unshift).
unshift(array, x) == <<x>> \o array

\* Array.prototype.push
push(array, x) == Append(array, x)

\* A test that never finds the element.
containsNothing(array, x) == FALSE

\* _.indexOf(array, x) >= 0; underscore answers -1 for an undefined array.
RECURSIVE contains(_, _)
contains(array, x) ==
    IF array = <<>> THEN FALSE
    ELSE Head(array) = x \/ contains(Tail(array), x)

\* _.without(array, x): a new array, the elements of array other than x.
RECURSIVE without(_, _)
without(array, x) ==
    IF array = <<>> THEN <<>>
    ELSE (IF Head(array) = x THEN <<>> ELSE <<Head(array)>>) \o without(Tail(array), x)

\* obj[key] = value on an object held as a function from its own keys.
setProperty(obj, key, value) ==
    [k \in DOMAIN obj \cup {key} |-> IF k = key THEN value ELSE obj[k]]

-----------------------------------------------------------------------------
(* The string substitution helper, replace of @polpware/fe-utilities: every *)
(* placeholder {name} of the template is replaced by params[name].          *)

\* The position of the first character c of str, 0 if there is none.
firstIndexOf(str, c) ==
    IF \E i \in 1..Len(str) : SubSeq(str, i, i) = c
    THEN CHOOSE i \in 1..Len(str) :
            /\ SubSeq(str, i, i) = c
            /\ \A j \in 1..(i - 1) : SubSeq(str, j, j) # c
    ELSE 0

RECURSIVE replaceStr(_, _)
replaceStr(str, params) ==
    IF str = "" THEN ""
    ELSE LET close == firstIndexOf(str, "}")
             name  == SubSeq(str, 2, close - 1)
         IN  IF Head(str) = "{" /\ close > 0 /\ name \in DOMAIN params
             THEN params[name] \o replaceStr(SubSeq(str, close + 1, Len(str)), params)
             ELSE Head(str) \o replaceStr(Tail(str), params)

transitionKeyFormat == "{from}2{to}"

\* replaceStr(transitionKeyFormat, { from: from, to: to })
transitionKey(from, to) == replaceStr(transitionKeyFormat, [from |-> from, to |-> to])

-----------------------------------------------------------------------------
(* The delegate engine, dependencies['statemachine'].  It is not part of    *)
(* the repository; it is modelled by the contract the builder relies on     *)
(* (specification, sections 4.1, 4.3 and 6).                                *)

\* The method the table holds under name, Undefined if it holds none.
method(methods, name) == IF name \in DOMAIN methods THEN methods[name] ELSE Undefined

\* The label of the closure buildHandlerInClosure(context, key) returns.
dispatcher(key) == "buildHandlerInClosure(" \o key \o ")"

DispatcherKeys == {"onEnterState", "onLeaveState"}

\* A closure that iterates the array context[key] held when the closure was
\* built, the empty array start() has just stored.
closureCallsAtBuild(context, key, slot) == <<>>

\* buildHandlerInClosure: the closure reads context[key] when it is called
\* and invokes each element in index order; no array, no call.
closureCalls(context, key, slot) ==
    IF key \notin DOMAIN context THEN <<>>
    ELSE [i \in 1..Len(context[key]) |-> [fn |-> context[key][i], slot |-> slot]]

\* The engine invokes the method of the table stored under the name slot.
invoke(methods, slot, context) ==
    LET m == method(methods, slot)
    IN  IF m = Undefined THEN <<>>
        ELSE IF \E key \in DispatcherKeys : m = dispatcher(key)
        THEN closureCalls(context, CHOOSE key \in DispatcherKeys : m = dispatcher(key), slot)
        ELSE <<[fn |-> m, slot |-> slot]>>

\* new StateMachine({init, transitions, methods, onInvalidTransition})
StateMachine(init, transitions, methods, onInvalidTransition) ==
    [state |-> init, transitions |-> transitions, methods |-> methods,
     onInvalidTransition |-> onInvalidTransition]

\* engine.is(stateName)
is(engine, stateName) == engine.state = stateName

\* The transitions of the compiled list named name that leave the current state.
seek(engine, name) ==
    {i \in 1..Len(engine.transitions) :
        /\ engine.transitions[i].name = name
        /\ engine.transitions[i].from = engine.state}

\* engine.cannot(transitionIdentifier)
cannot(engine, name) == seek(engine, name) = {}

\* The notification the engine sends when cannot() answers true.
invalidTransitionCalls(engine, name, to) ==
    <<[fn |-> engine.onInvalidTransition, slot |-> "onInvalidTransition",
       args |-> <<name, engine.state, to>>]>>

\* The state after the engine executed the transition called name.
fireState(engine, name) ==
    engine.transitions[CHOOSE i \in seek(engine, name) :
                          \A j \in seek(engine, name) : i <= j].to

\* The marker of the state mutation in the sequence of calls.
mutation(to) == [fn |-> "state=", slot |-> to]

\* The calls the engine makes executing the transition called name: before
\* the transition, leave the source, the mutation, enter the target, after
\* the transition.
fireCalls(engine, name, context) ==
    LET from == engine.state
        to   == fireState(engine, name)
        ms   == engine.methods
    IN  invoke(ms, "onBefore" \o captialize(name), context)
        \o invoke(ms, "onLeave" \o captialize(from), context)
        \o invoke(ms, "onLeaveState", context)
        \o <<mutation(to)>>
        \o invoke(ms, "onEnter" \o captialize(to), context)
        \o invoke(ms, "onEnterState", context)
        \o invoke(ms, "onAfter" \o captialize(name), context)

-----------------------------------------------------------------------------
(* The callers.  A caller is the set of state names, callbacks, error       *)
(* handlers and listeners one client passes to the builder.                 *)

NoCallbacks == {}

AllCallbacks == {"onEnterCallback", "onLeaveCallback", "onAfterCallback", "onBeforeCallback"}

Callers ==
    { [names |-> {"a", "b"}, callbacks |-> AllCallbacks,
       errorHandlers |-> {}, enterListeners |-> {}, exitListeners |-> {}],
      [names |-> {"a", "b"}, callbacks |-> AllCallbacks \ {"onLeaveCallback"},
       errorHandlers |-> {}, enterListeners |-> {}, exitListeners |-> {}],
      [names |-> {"a", "b", "c"}, callbacks |-> NoCallbacks,
       errorHandlers |-> {}, enterListeners |-> {}, exitListeners |-> {}],
      [names |-> {"a", "a2a"}, callbacks |-> NoCallbacks,
       errorHandlers |-> {}, enterListeners |-> {}, exitListeners |-> {}],
      [names |-> {"a", "toString"}, callbacks |-> NoCallbacks,
       errorHandlers |-> {}, enterListeners |-> {}, exitListeners |-> {}],
      [names |-> {"a", ""}, callbacks |-> NoCallbacks,
       errorHandlers |-> {}, enterListeners |-> {}, exitListeners |-> {}],
      [names |-> {"a", "b"}, callbacks |-> NoCallbacks,
       errorHandlers |-> {"eh1"}, enterListeners |-> {"h1"}, exitListeners |-> {"h1"}],
      [names |-> {"a", "b"}, callbacks |-> NoCallbacks,
       errorHandlers |-> {}, enterListeners |-> {"h1", "h2"}, exitListeners |-> {}],
      [names |-> {"a", "b"}, callbacks |-> NoCallbacks,
       errorHandlers |-> {}, enterListeners |-> {}, exitListeners |-> {"h1", "h2"}],
      [names |-> {"a", "state"}, callbacks |-> AllCallbacks,
       errorHandlers |-> {}, enterListeners |-> {}, exitListeners |-> {}],
      [names |-> {"a", "A"}, callbacks |-> AllCallbacks,
       errorHandlers |-> {}, enterListeners |-> {}, exitListeners |-> {}],
      [names |-> {"a", "b"}, callbacks |-> {"onBeforeCallback"},
       errorHandlers |-> {}, enterListeners |-> {}, exitListeners |-> {}],
      [names |-> {"a"}, callbacks |-> NoCallbacks,
       errorHandlers |-> {"eh1", "eh2"}, enterListeners |-> {}, exitListeners |-> {}] }

\* The value a caller passes for the optional callback argument parameter:
\* the function fn if it passes that argument, undefined otherwise.
callbackArg(parameter, fn) == IF parameter \in caller.callbacks THEN fn ELSE Undefined

\* The functions a caller passes to addState(name, ...).
onEnterCallbackOf(name) == "onEnterCallback(" \o name \o ")"
onLeaveCallbackOf(name) == "onLeaveCallback(" \o name \o ")"

\* The functions a caller passes to addTransition(from, to, ...).
onAfterCallbackOf(from, to) == "onAfterCallback(" \o from \o "," \o to \o ")"
onBeforeCallbackOf(from, to) == "onBeforeCallback(" \o from \o "," \o to \o ")"

-----------------------------------------------------------------------------
(* The builder, class FiniteStateMachine *)

\* The outcome of a call that returned.
Ok == "ok"

\* A call that throws: nothing is written.
throws(op, error) ==
    /\ last' = [op |-> op, outcome |-> error, ret |-> Undefined]
    /\ calls' = <<>>
    /\ UNCHANGED <<fields, history>>

\* A call that returns.
returns(op, ret) ==
    last' = [op |-> op, outcome |-> Ok, ret |-> ret]

\* constructor()
Init ==
    /\ impl = Null
    /\ initState = Null
    /\ errorHandler = "null"
    /\ stateConfiguration = <<>>
    /\ transitionConfiguration = <<>>
    /\ handlers = <<>>
    /\ last = [op |-> "constructor", outcome |-> Ok, ret |-> "this"]
    /\ calls = <<>>
    /\ caller \in Callers
    /\ addedStates = {}
    /\ addedTransitions = {}
    /\ startCount = 0
    /\ registered = [onEnterState |-> <<>>, onLeaveState |-> <<>>]

\* A builder whose ensureConfigureStage() forgot the test.
ensureConfigureStageUnchecked == Ok

\* ensureConfigureStage(): the error it throws ('State machine has
\* started.'), Ok if it returns.
ensureConfigureStage == IF impl # Null THEN "AlreadyStartedError" ELSE Ok

\* A builder whose ensureRunningStage() throws the other stage's error.
ensureRunningStageWrongError == IF impl = Null THEN "AlreadyStartedError" ELSE Ok

\* ensureRunningStage(): the error it throws ('State machine has not yet
\* started.'), Ok if it returns.
ensureRunningStage == IF impl = Null THEN "NotStartedError" ELSE Ok

\* A builder that looks the state up in the transitions.
stateDefinedInTransitions(name) == truthyLookup(transitionConfiguration, name)

\* if (stateConf[name])
stateDefined(name) == truthyLookup(stateConfiguration, name)

\* if (transitionConf[key])
transitionDefined(key) == truthyLookup(transitionConfiguration, key)

\* if (this._initState): null and the empty string are falsy
initStateDefined == initState # Null /\ initState[1] # ""

\* addState(name, onEnterCallback, onLeaveCallback)
AddState(name, onEnterCallback, onLeaveCallback) ==
    IF ensureConfigureStage # Ok
    THEN throws("addState", ensureConfigureStage)
    ELSE IF stateDefined(name)
    THEN throws("addState", "DuplicateStateError")
    ELSE /\ stateConfiguration' =
                push(stateConfiguration,
                     [key |-> name,
                      value |-> [onEnterCallback |-> onEnterCallback,
                                 onLeaveCallback |-> onLeaveCallback]])
         /\ addedStates' = addedStates \cup {name}
         /\ returns("addState", "this")
         /\ calls' = <<>>
         /\ UNCHANGED <<impl, initState, errorHandler, transitionConfiguration,
                        handlers, addedTransitions, startCount, registered>>

\* A setInitState that records the name before it tests for a redefinition.
SetInitStateRecordsFirst(name) ==
    IF ensureConfigureStage # Ok
    THEN throws("setInitState", ensureConfigureStage)
    ELSE /\ initState' = <<name>>
         /\ last' = [op |-> "setInitState",
                     outcome |-> IF initStateDefined THEN "DuplicateInitStateError" ELSE Ok,
                     ret |-> IF initStateDefined THEN Undefined ELSE "this"]
         /\ calls' = <<>>
         /\ UNCHANGED <<impl, errorHandler, stateConfiguration,
                        transitionConfiguration, handlers, history>>

\* setInitState(name)
SetInitState(name) ==
    IF ensureConfigureStage # Ok
    THEN throws("setInitState", ensureConfigureStage)
    ELSE IF initStateDefined
    THEN throws("setInitState", "DuplicateInitStateError")
    ELSE /\ initState' = <<name>>
         /\ returns("setInitState", "this")
         /\ calls' = <<>>
         /\ UNCHANGED <<impl, errorHandler, stateConfiguration,
                        transitionConfiguration, handlers, history>>

\* addTransition(from, to, onAfterCallback, onBeforeCallback)
AddTransition(from, to, onAfterCallback, onBeforeCallback) ==
    IF ensureConfigureStage # Ok
    THEN throws("addTransition", ensureConfigureStage)
    ELSE IF ~stateDefined(from)
    THEN throws("addTransition", "UnknownStateError")
    ELSE IF ~stateDefined(to)
    THEN throws("addTransition", "UnknownStateError")
    ELSE IF transitionDefined(transitionKey(from, to))
    THEN throws("addTransition", "DuplicateTransitionError")
    ELSE /\ Len(transitionConfiguration) < MaxTransitions
         /\ transitionConfiguration' =
                push(transitionConfiguration,
                     [key |-> transitionKey(from, to),
                      value |-> [from |-> from, to |-> to,
                                 onAfterCallback |-> onAfterCallback,
                                 onBeforeCallback |-> onBeforeCallback]])
         /\ addedTransitions' = addedTransitions \cup {<<from, to>>}
         /\ returns("addTransition", "this")
         /\ calls' = <<>>
         /\ UNCHANGED <<impl, initState, errorHandler, stateConfiguration,
                        handlers, addedStates, startCount, registered>>

\* addErrorHandler(fn)
AddErrorHandler(fn) ==
    IF ensureConfigureStage # Ok
    THEN throws("addErrorHandler", ensureConfigureStage)
    ELSE /\ errorHandler' = fn
         /\ returns("addErrorHandler", "this")
         /\ calls' = <<>>
         /\ UNCHANGED <<impl, initState, stateConfiguration,
                        transitionConfiguration, handlers, history>>


\* A builder that compiles every transition with its key as the target.
compiledTransitionsToKey(transitionConf) ==
    [i \in 1..Len(transitionConf) |->
        [name |-> transitionConf[i].key,
         from |-> transitionConf[i].value.from,
         to   |-> transitionConf[i].key]]

\* A builder that compiles every transition with its endpoints exchanged.
compiledTransitionsSwapped(transitionConf) ==
    [i \in 1..Len(transitionConf) |->
        [name |-> transitionConf[i].key,
         from |-> transitionConf[i].value.to,
         to   |-> transitionConf[i].value.from]]

\* start(): the transitions array pushed in the loop over transitionConf.
compiledTransitions(transitionConf) ==
    [i \in 1..Len(transitionConf) |->
        [name |-> transitionConf[i].key,
         from |-> transitionConf[i].value.from,
         to   |-> transitionConf[i].value.to]]

\* start(): the assignments to methods made in the loop over transitionConf.
RECURSIVE transitionMethods(_)
transitionMethods(transitionConf) ==
    IF transitionConf = <<>> THEN <<>>
    ELSE LET k1    == Head(transitionConf).key
             elem1 == Head(transitionConf).value
         IN  (IF elem1.onAfterCallback # Undefined
              THEN <<[name |-> "onAfter" \o captialize(k1), fn |-> elem1.onAfterCallback]>>
              ELSE <<>>)
             \o (IF elem1.onBeforeCallback # Undefined
                 THEN <<[name |-> "onBefore" \o captialize(k1), fn |-> elem1.onAfterCallback]>>
                 ELSE <<>>)
             \o transitionMethods(Tail(transitionConf))

\* start(): the assignments to methods made in the loop over stateConf.
RECURSIVE stateMethods(_)
stateMethods(stateConf) ==
    IF stateConf = <<>> THEN <<>>
    ELSE LET k2    == Head(stateConf).key
             elem2 == Head(stateConf).value
         IN  (IF elem2.onEnterCallback # Undefined
              THEN <<[name |-> "onEnter" \o captialize(k2), fn |-> elem2.onEnterCallback]>>
              ELSE <<>>)
             \o (IF elem2.onLeaveCallback # Undefined
                 THEN <<[name |-> "onLeave" \o captialize(k2), fn |-> elem2.onLeaveCallback]>>
                 ELSE <<>>)
             \o stateMethods(Tail(stateConf))

\* start(): the assignments of the two dispatchers.
dispatcherMethods ==
    <<[name |-> "onEnterState", fn |-> dispatcher("onEnterState")],
      [name |-> "onLeaveState", fn |-> dispatcher("onLeaveState")]>>

\* start(): the methods object after all assignments; a later assignment
\* to a name replaces an earlier one.
compiledMethods(transitionConf, stateConf) ==
    LET assignments == transitionMethods(transitionConf) \o stateMethods(stateConf)
                           \o dispatcherMethods
        lastOf(n) == CHOOSE i \in 1..Len(assignments) :
                        /\ assignments[i].name = n
                        /\ \A j \in (i + 1)..Len(assignments) : assignments[j].name # n
    IN  [n \in {assignments[i].name : i \in 1..Len(assignments)} |->
            assignments[lastOf(n)].fn]

\* A start() that installs the default handler whatever was given.
installedErrorHandlerDefaultOnly == "defaultErrorHandler"

\* this._errorHandler || defaultErrorHandler
installedErrorHandler == IF errorHandler # "null" THEN errorHandler ELSE "defaultErrorHandler"

\* start()
Start ==
    IF ensureConfigureStage # Ok
    THEN throws("start", ensureConfigureStage)
    ELSE IF ~initStateDefined
    THEN throws("start", "MissingInitStateError")
    ELSE /\ handlers' = setProperty(setProperty(handlers, "onEnterState", <<>>),
                                    "onLeaveState", <<>>)
         /\ impl' = StateMachine(initState[1],
                                 compiledTransitions(transitionConfiguration),
                                 compiledMethods(transitionConfiguration, stateConfiguration),
                                 installedErrorHandler)
         /\ startCount' = startCount + 1
         /\ returns("start", "this")
         /\ calls' = <<>>
         /\ UNCHANGED <<configuration, addedStates, addedTransitions, registered>>

\* onEnterState(handler) and onExitState(handler): key names the array.
\* Before start() the array is undefined: indexOf answers -1 and the push
\* on undefined throws a TypeError.
register(op, key, handler) ==
    IF key \notin DOMAIN handlers
    THEN throws(op, "TypeError")
    ELSE IF contains(handlers[key], handler)
    THEN throws(op, "DuplicateHandlerError")
    ELSE /\ handlers' = [handlers EXCEPT ![key] = push(handlers[key], handler)]
         /\ registered' = [registered EXCEPT ![key] = Append(@, handler)]
         /\ returns(op, "this")
         /\ calls' = <<>>
         /\ UNCHANGED <<impl, configuration, addedStates, addedTransitions, startCount>>

OnEnterState(handler) == register("onEnterState", "onEnterState", handler)

\* An onExitState that keeps its listeners in the array of onEnterState.
OnExitStateShared(handler) == register("onExitState", "onEnterState", handler)

OnExitState(handler) == register("onExitState", "onLeaveState", handler)

\* offEnterState(handler) and offExitState(handler): the array read under
\* key, without handler, is stored under the property target.
unregister(op, key, target, handler) ==
    /\ handlers' = setProperty(handlers, target,
                               without(IF key \in DOMAIN handlers THEN handlers[key] ELSE <<>>,
                                       handler))
    /\ registered' = [registered EXCEPT ![key] = SelectSeq(@, LAMBDA h : h # handler)]
    /\ returns(op, "this")
    /\ calls' = <<>>
    /\ UNCHANGED <<impl, configuration, addedStates, addedTransitions, startCount>>

OffEnterState(handler) == unregister("offEnterState", "onEnterState", "onenterstate", handler)

OffExitState(handler) == unregister("offExitState", "onLeaveState", "onexitstate", handler)

\* The value of the expression self in go(): the module declares no self,
\* so it is the global object of the browser (the declared return type of
\* go is Window | this).
self == "self"

\* A builder whose go() has no test for the current state.
alreadyThereUnchecked(to) == FALSE

\* go(): if (this._impl.is(to))
alreadyThere(to) == is(impl, to)

\* A go() that lets the machine leave the current state before it asks the
\* engine whether the transition is allowed.
GoLeavesBeforeCheck(to) ==
    IF ensureRunningStage # Ok
    THEN throws("go", ensureRunningStage)
    ELSE IF ~stateDefined(to)
    THEN throws("go", "UnknownStateError")
    ELSE IF alreadyThere(to)
    THEN /\ returns("go", "this")
         /\ calls' = <<>>
         /\ UNCHANGED <<fields, history>>
    ELSE LET currentState   == impl.state
             transitionName == transitionKey(currentState, to)
             leaveCalls     == invoke(impl.methods, "onLeave" \o captialize(currentState),
                                      handlers)
                               \o invoke(impl.methods, "onLeaveState", handlers)
         IN  IF cannot(impl, transitionName)
             THEN /\ last' = [op |-> "go", outcome |-> "IllegalTransitionError",
                              ret |-> Undefined]
                  /\ calls' = leaveCalls \o invalidTransitionCalls(impl, transitionName, to)
                  /\ UNCHANGED <<fields, history>>
             ELSE /\ impl' = [impl EXCEPT !.state = fireState(impl, transitionName)]
                  /\ calls' = fireCalls(impl, transitionName, handlers)
                  /\ returns("go", self)
                  /\ UNCHANGED <<configuration, handlers, history>>

\* go(to)
Go(to) ==
    IF ensureRunningStage # Ok
    THEN throws("go", ensureRunningStage)
    ELSE IF ~stateDefined(to)
    THEN throws("go", "UnknownStateError")
    ELSE IF alreadyThere(to)
    THEN /\ returns("go", "this")
         /\ calls' = <<>>
         /\ UNCHANGED <<fields, history>>
    ELSE LET currentState   == impl.state
             transitionName == transitionKey(currentState, to)
         IN  IF cannot(impl, transitionName)
             THEN /\ last' = [op |-> "go", outcome |-> "IllegalTransitionError",
                              ret |-> Undefined]
                  /\ calls' = invalidTransitionCalls(impl, transitionName, to)
                  /\ UNCHANGED <<fields, history>>
             ELSE /\ impl' = [impl EXCEPT !.state = fireState(impl, transitionName)]
                  /\ calls' = fireCalls(impl, transitionName, handlers)
                  /\ returns("go", self)
                  /\ UNCHANGED <<configuration, handlers, history>>

\* A current() that answers the init state instead of the engine's state.
CurrentOfInitState ==
    IF ensureRunningStage # Ok
    THEN throws("current", ensureRunningStage)
    ELSE /\ returns("current", initState[1])
         /\ calls' = <<>>
         /\ UNCHANGED <<fields, history>>

\* current()
Current ==
    IF ensureRunningStage # Ok
    THEN throws("current", ensureRunningStage)
    ELSE /\ returns("current", impl.state)
         /\ calls' = <<>>
         /\ UNCHANGED <<fields, history>>

Next ==
    \/ \E name \in caller.names :
         AddState(name, callbackArg("onEnterCallback", onEnterCallbackOf(name)),
                  callbackArg("onLeaveCallback", onLeaveCallbackOf(name)))
           /\ UNCHANGED caller
    \/ \E name \in caller.names : SetInitState(name) /\ UNCHANGED caller
    \/ \E from \in caller.names, to \in caller.names :
         AddTransition(from, to, callbackArg("onAfterCallback", onAfterCallbackOf(from, to)),
                       callbackArg("onBeforeCallback", onBeforeCallbackOf(from, to)))
           /\ UNCHANGED caller
    \/ \E fn \in caller.errorHandlers : AddErrorHandler(fn) /\ UNCHANGED caller
    \/ Start /\ UNCHANGED caller
    \/ \E handler \in caller.enterListeners : OnEnterState(handler) /\ UNCHANGED caller
    \/ \E handler \in caller.exitListeners : OnExitState(handler) /\ UNCHANGED caller
    \/ \E handler \in caller.enterListeners : OffEnterState(handler) /\ UNCHANGED caller
    \/ \E handler \in caller.exitListeners : OffExitState(handler) /\ UNCHANGED caller
    \/ \E to \in caller.names : Go(to) /\ UNCHANGED caller
    \/ Current /\ UNCHANGED caller

Spec == Init /\ [][Next]_vars

-----------------------------------------------------------------------------
(* Properties *)

\* The stage of the builder.
Running == impl # Null

Configuring == impl = Null

\* The own entry of the transition declared for the pair, a set of at most one.
declaredTransition(from, to) ==
    {i \in 1..Len(transitionConfiguration) :
        /\ transitionConfiguration[i].value.from = from
        /\ transitionConfiguration[i].value.to = to}

\* Every value a caller may pass for an optional callback argument.
anyCallback(fn) == {Undefined, fn}

\* Some addState(name, ...) call.
AnyAddState(name) ==
    \E onEnterCallback \in anyCallback(onEnterCallbackOf(name)) :
      \E onLeaveCallback \in anyCallback(onLeaveCallbackOf(name)) :
        AddState(name, onEnterCallback, onLeaveCallback)

\* Some addTransition(from, to, ...) call.
AnyAddTransition(from, to) ==
    \E onAfterCallback \in anyCallback(onAfterCallbackOf(from, to)) :
      \E onBeforeCallback \in anyCallback(onBeforeCallbackOf(from, to)) :
        AddTransition(from, to, onAfterCallback, onBeforeCallback)

\* C1: in the Running stage, go(to) to a declared state other than the
\* current one, over a transition (current, to) declared with addTransition,
\* returns and makes to the current state, whatever calls came before.
C1_GoOverDeclaredTransition ==
    [][\A to \in caller.names :
          (/\ Running
           /\ to \in addedStates
           /\ impl.state # to
           /\ <<impl.state, to>> \in addedTransitions
           /\ Go(to))
          => (last'.outcome = Ok /\ impl'.state = to)]_vars

\* A go has executed a declared transition into a declared state.
C1_Witness ==
    /\ Running
    /\ last.op = "go" /\ last.outcome = Ok
    /\ impl.state \in addedStates
    /\ addedTransitions \subseteq addedStates \X addedStates
    /\ mutation(impl.state) \in {calls[i] : i \in 1..Len(calls)}

\* C2: in the Running stage, go(to) to a declared state other than the
\* current one, with no transition (current, to) declared, throws
\* IllegalTransitionError and leaves the current state as it was.
C2_GoOverUndeclaredTransition ==
    [][\A to \in caller.names :
          (/\ Running
           /\ to \in addedStates
           /\ impl.state # to
           /\ <<impl.state, to>> \notin addedTransitions
           /\ Go(to))
          => (last'.outcome = "IllegalTransitionError" /\ impl'.state = impl.state)]_vars

\* A go was refused although some transition was declared.
C2_Witness ==
    /\ Running
    /\ last.op = "go" /\ last.outcome = "IllegalTransitionError"
    /\ addedTransitions # {}
    /\ impl.state \in addedStates

\* The callback stored for a declared state, Undefined if the state has
\* no own entry.
enterCallback(name) ==
    IF hasOwnProperty(stateConfiguration, name)
    THEN ownValue(stateConfiguration, name).onEnterCallback ELSE Undefined

leaveCallback(name) ==
    IF hasOwnProperty(stateConfiguration, name)
    THEN ownValue(stateConfiguration, name).onLeaveCallback ELSE Undefined

\* The global listeners registered under key.
listenersOf(key) ==
    IF key \in DOMAIN handlers THEN {handlers[key][i] : i \in 1..Len(handlers[key])} ELSE {}

\* The functions of sequence at the positions lo..hi are exactly those of fns.
exactly(sequence, lo, hi, fns) ==
    /\ \A j \in lo..hi : sequence[j].fn \in fns
    /\ \A f \in fns : \E j \in lo..hi : sequence[j].fn = f

\* The order of section 4.3 for a go from from to to: before, leave,
\* the mutation, enter, after.
inOrder(sequence, from, to, before, after) ==
    \E m \in 2..(Len(sequence) - 1) :
        /\ sequence[m] = mutation(to)
        /\ sequence[1].fn = before
        /\ sequence[Len(sequence)].fn = after
        /\ exactly(sequence, 2, m - 1,
                   ({leaveCallback(from)} \ {Undefined}) \cup listenersOf("onLeaveState"))
        /\ exactly(sequence, m + 1, Len(sequence) - 1,
                   {enterCallback(to)} \cup listenersOf("onEnterState"))

\* C3: a go(B) from A over a transition declared with onBeforeCallback and
\* onAfterCallback, into a state declared with onEnterCallback, invokes the
\* transition's onBeforeCallback, then A's leave callback and the leave
\* listeners, then changes the state, then invokes B's enter callback and
\* the enter listeners, then the transition's onAfterCallback.
C3_CallbackOrder ==
    [][\A to \in caller.names :
          (/\ Running
           /\ impl.state # to
           /\ Go(to)
           /\ impl'.state = to
           /\ enterCallback(to) # Undefined
           /\ \E i \in declaredTransition(impl.state, to) :
                 /\ transitionConfiguration[i].value.onBeforeCallback # Undefined
                 /\ transitionConfiguration[i].value.onAfterCallback # Undefined)
          => \A i \in declaredTransition(impl.state, to) :
                inOrder(calls', impl.state, to,
                        transitionConfiguration[i].value.onBeforeCallback,
                        transitionConfiguration[i].value.onAfterCallback)]_vars

C5_StageIsOneWay ==
    /\ Configuring
    /\ [][/\ Running => Running'
          /\ (Configuring /\ Running') => (last'.op = "start" /\ last'.outcome = Ok)
          /\ (last'.op = "start" /\ last'.outcome = Ok) => (Configuring /\ Running')
          /\ startCount' <= 1]_vars

\* A second start() was refused in the Running stage, after a go.
C5_Witness ==
    /\ Running
    /\ startCount = 1
    /\ last.op = "start" /\ last.outcome = "AlreadyStartedError"
    /\ impl.state # initState[1]

\* C6: in the Running stage addState, addTransition, setInitState,
\* addErrorHandler and start() throw AlreadyStartedError for all arguments
\* and write nothing.
C6_ConfigurationAfterStart ==
    [][Running =>
         \A name \in caller.names, to \in caller.names,
            fn \in caller.errorHandlers \cup {"eh"} :
           (\/ AnyAddState(name)
            \/ AnyAddTransition(name, to)
            \/ SetInitState(name)
            \/ AddErrorHandler(fn)
            \/ Start)
           => (last'.outcome = "AlreadyStartedError" /\ UNCHANGED <<fields, history>>)]_vars

\* A configuration call was refused in the Running stage.
C6_Witness ==
    /\ Running
    /\ last.op \in {"addState", "addTransition", "setInitState", "addErrorHandler"}
    /\ last.outcome = "AlreadyStartedError"
    /\ stateConfiguration # <<>>

\* C7: in the Configuring stage go(to) and current() throw NotStartedError
\* for every argument and write nothing.
C7_RuntimeBeforeStart ==
    [][Configuring =>
         \A to \in caller.names :
           (Go(to) \/ Current)
           => (last'.outcome = "NotStartedError" /\ UNCHANGED <<fields, history>>)]_vars

\* A go or a current() was refused with the configuration complete.
C7_Witness ==
    /\ Configuring
    /\ last.op \in {"go", "current"}
    /\ last.outcome = "NotStartedError"
    /\ initStateDefined
    /\ addedTransitions # {}

\* C8: in the Configuring stage addState returns for every name not added
\* before and throws DuplicateStateError for every name added before.
C8_AddStateDistinctNames ==
    [][\A name \in caller.names :
          (Configuring /\ AnyAddState(name))
          => IF name \in addedStates
             THEN last'.outcome = "DuplicateStateError"
             ELSE last'.outcome = Ok /\ name \in addedStates']_vars

\* C9: in the Configuring stage addTransition(from, to), for a pair not
\* declared before, returns if and only if from and to were both added
\* with addState, and throws UnknownStateError otherwise.
C9_AddTransitionNeedsStates ==
    [][\A from \in caller.names, to \in caller.names :
          (/\ Configuring
           /\ <<from, to>> \notin addedTransitions
           /\ AnyAddTransition(from, to))
          => IF from \in addedStates /\ to \in addedStates
             THEN last'.outcome = Ok
             ELSE last'.outcome = "UnknownStateError"]_vars

\* C10: addTransition between declared states throws
\* DuplicateTransitionError exactly when the same ordered pair was declared
\* before; two different ordered pairs can both be declared.
C10_DuplicateIffSamePair ==
    [][\A from \in caller.names, to \in caller.names :
          (/\ Configuring
           /\ from \in addedStates
           /\ to \in addedStates
           /\ AnyAddTransition(from, to))
          => (last'.outcome = "DuplicateTransitionError"
                <=> <<from, to>> \in addedTransitions)]_vars

\* Some setInitState call has returned: nothing else writes _initState.
initStateRecorded == initState # Null

\* C11: start() fails with MissingInitStateError and leaves the stage
\* Configuring as long as no setInitState call has returned, whatever states
\* and transitions were declared; in the Configuring stage start() returns
\* once a setInitState call has returned.
C11_StartNeedsInitState ==
    [][(Configuring /\ Start)
          => IF initStateRecorded
             THEN last'.outcome = Ok /\ Running'
             ELSE last'.outcome = "MissingInitStateError" /\ Configuring']_vars

\* C12: in the Configuring stage, once a setInitState call has returned,
\* every further setInitState call, for every name, throws
\* DuplicateInitStateError and the init state recorded first is kept.
C12_InitStateSetOnce ==
    [][\A name \in caller.names :
          (Configuring /\ initStateRecorded /\ SetInitState(name))
          => (last'.outcome = "DuplicateInitStateError" /\ initState' = initState)]_vars

\* C13: a go(to) to a declared state other than the current one, with no
\* transition (current, to) declared, invokes the installed error handler
\* (the one given to addErrorHandler, the default one if none was given)
\* with (transition identifier, from, to), and throws
\* IllegalTransitionError.  The invocation is the engine's, taken from its
\* contract.
C13_IllegalGoBothChannels ==
    [][\A to \in caller.names :
          (/\ Running
           /\ to \in addedStates
           /\ impl.state # to
           /\ <<impl.state, to>> \notin addedTransitions
           /\ Go(to))
          => /\ last'.outcome = "IllegalTransitionError"
             /\ calls' = <<[fn |-> IF errorHandler = "null" THEN "defaultErrorHandler"
                                   ELSE errorHandler,
                            slot |-> "onInvalidTransition",
                            args |-> <<transitionKey(impl.state, to), impl.state, to>>]>>]_vars

\* C14: in the Running stage go(to), for every name never added with
\* addState, throws UnknownStateError, leaves the current state as it was
\* and invokes nothing.
C14_GoToUndeclaredState ==
    [][\A to \in caller.names :
          (Running /\ to \notin addedStates /\ Go(to))
          => (/\ last'.outcome = "UnknownStateError"
              /\ impl' = impl
              /\ calls' = <<>>)]_vars

\* The listener sequence the builder keeps under key, empty before start().
listenerSequence(key) == IF key \in DOMAIN handlers THEN handlers[key] ELSE <<>>

\* The listeners a call sequence invoked through the dispatcher of key, in order.
invokedListeners(sequence, key) ==
    LET dispatched == SelectSeq(sequence, LAMBDA call : call.slot = key)
    IN  [i \in 1..Len(dispatched) |-> dispatched[i].fn]

\* A go that changed the state.
StateChangingGo == \E to \in caller.names : Go(to) /\ Running /\ impl'.state # impl.state

\* C15: offEnterState(h) (offExitState(h)) for a registered listener h takes
\* h out of the enter (leave) sequence and keeps the other listeners in
\* their order; a listener unregistered this way is not invoked by a later
\* go, and registering it again does not throw DuplicateHandlerError.
C15_OffRemovesListener ==
    [][/\ \A h \in caller.enterListeners :
            (contains(registered.onEnterState, h) /\ OffEnterState(h))
            => listenerSequence("onEnterState")' = without(listenerSequence("onEnterState"), h)
       /\ \A h \in caller.exitListeners :
            (contains(registered.onLeaveState, h) /\ OffExitState(h))
            => listenerSequence("onLeaveState")' = without(listenerSequence("onLeaveState"), h)
       /\ StateChangingGo
            => /\ invokedListeners(calls', "onEnterState") = registered.onEnterState
               /\ invokedListeners(calls', "onLeaveState") = registered.onLeaveState
       /\ \A h \in caller.enterListeners :
            (Running /\ ~contains(registered.onEnterState, h) /\ OnEnterState(h))
            => last'.outcome = Ok
       /\ \A h \in caller.exitListeners :
            (Running /\ ~contains(registered.onLeaveState, h) /\ OnExitState(h))
            => last'.outcome = Ok]_vars

\* C16: in the Configuring stage onEnterState(h) and onExitState(h), for a
\* listener h not yet registered, return and put h into the sequence, and
\* start() keeps the sequences, so that h is invoked once the machine runs.
C16_RegisterBeforeStart ==
    [][/\ \A h \in caller.enterListeners :
            (/\ Configuring
             /\ ~contains(listenerSequence("onEnterState"), h)
             /\ OnEnterState(h))
            => (last'.outcome = Ok /\ contains(listenerSequence("onEnterState")', h))
       /\ \A h \in caller.exitListeners :
            (/\ Configuring
             /\ ~contains(listenerSequence("onLeaveState"), h)
             /\ OnExitState(h))
            => (last'.outcome = Ok /\ contains(listenerSequence("onLeaveState")', h))
       /\ (Configuring /\ Start)
            => /\ listenerSequence("onEnterState")' = listenerSequence("onEnterState")
               /\ listenerSequence("onLeaveState")' = listenerSequence("onLeaveState")]_vars

\* The positions of the call sequence at which the dispatcher of key invoked h.
invocations(sequence, key, h) ==
    {i \in 1..Len(sequence) : sequence[i] = [fn |-> h, slot |-> key]}

\* The position of the state mutation in the call sequence of a go.
mutationAt(sequence) ==
    CHOOSE m \in 1..Len(sequence) : sequence[m].fn = mutation("").fn

\* C17: a listener registered with onEnterState (onExitState) in the Running
\* stage is invoked by every later go that changes the state: an enter
\* listener after the state mutation, an exit listener before it.
C17_LateRegistrationTakesEffect ==
    [][StateChangingGo
          => /\ \A h \in caller.enterListeners :
                   contains(registered.onEnterState, h)
                   => \E i \in invocations(calls', "onEnterState", h) : mutationAt(calls') < i
             /\ \A h \in caller.exitListeners :
                   contains(registered.onLeaveState, h)
                   => \E i \in invocations(calls', "onLeaveState", h) : i < mutationAt(calls')]_vars

\* A go changed the state and invoked an enter listener and an exit
\* listener, both registered after start().
C17_Witness ==
    /\ Running
    /\ last.op = "go" /\ last.outcome = Ok
    /\ startCount = 1
    /\ \E h \in caller.enterListeners :
          /\ contains(registered.onEnterState, h)
          /\ invocations(calls, "onEnterState", h) # {}
    /\ \E h \in caller.exitListeners :
          /\ contains(registered.onLeaveState, h)
          /\ invocations(calls, "onLeaveState", h) # {}

\* The elements of sequence that are among those of kept, in their order.
restrictedTo(sequence, kept) == SelectSeq(sequence, LAMBDA x : contains(kept, x))

noDuplicates(sequence) ==
    \A i \in 1..Len(sequence), j \in 1..Len(sequence) :
        sequence[i] = sequence[j] => i = j

\* C19: onEnterState(h) (onExitState(h)) for a listener h already in the
\* sequence throws DuplicateHandlerError and leaves the sequence as it was,
\* so that no sequence holds a listener twice; offEnterState(h)
\* (offExitState(h)) for a listener that is in no sequence returns and
\* leaves both sequences as they were.
C19_NoDuplicateListeners ==
    /\ noDuplicates(listenerSequence("onEnterState"))
    /\ noDuplicates(listenerSequence("onLeaveState"))
    /\ [][/\ noDuplicates(listenerSequence("onEnterState")')
          /\ noDuplicates(listenerSequence("onLeaveState")')
          /\ \A h \in caller.enterListeners :
               /\ (contains(listenerSequence("onEnterState"), h) /\ OnEnterState(h))
                    => /\ last'.outcome = "DuplicateHandlerError"
                       /\ listenerSequence("onEnterState")' = listenerSequence("onEnterState")
               /\ (~contains(listenerSequence("onEnterState"), h) /\ OffEnterState(h))
                    => /\ last'.outcome = Ok
                       /\ listenerSequence("onEnterState")' = listenerSequence("onEnterState")
                       /\ listenerSequence("onLeaveState")' = listenerSequence("onLeaveState")
                       /\ UNCHANGED <<impl, configuration>>
          /\ \A h \in caller.exitListeners :
               /\ (contains(listenerSequence("onLeaveState"), h) /\ OnExitState(h))
                    => /\ last'.outcome = "DuplicateHandlerError"
                       /\ listenerSequence("onLeaveState")' = listenerSequence("onLeaveState")
               /\ (~contains(listenerSequence("onLeaveState"), h) /\ OffExitState(h))
                    => /\ last'.outcome = Ok
                       /\ listenerSequence("onEnterState")' = listenerSequence("onEnterState")
                       /\ listenerSequence("onLeaveState")' = listenerSequence("onLeaveState")
                       /\ UNCHANGED <<impl, configuration>>]_vars

\* A second registration of a registered listener was refused while another
\* listener was registered as well.
C19_Witness ==
    /\ Running
    /\ last.op \in {"onEnterState", "onExitState"}
    /\ last.outcome = "DuplicateHandlerError"
    /\ \E key \in DispatcherKeys : Len(listenerSequence(key)) = 2

\* An offEnterState or offExitState for a listener never registered returned.
C19_WitnessOff ==
    /\ Running
    /\ last.op \in {"offEnterState", "offExitState"}
    /\ last.outcome = Ok
    /\ \E key \in DispatcherKeys : Len(listenerSequence(key)) = 1

\* C20: every go(to) that returns, returns the builder itself (this), both
\* when the current state already was to and when a transition was executed.
C20_GoReturnsThis ==
    [][\A to \in caller.names :
          (Go(to) /\ last'.outcome = Ok) => last'.ret = "this"]_vars

\* The number of calls of the function fn in a call sequence.
timesInvoked(sequence, fn) == Cardinality({i \in 1..Len(sequence) : sequence[i].fn = fn})

\* C21: every go that executes the declared transition (from, to) invokes
\* the onBeforeCallback given to addTransition(from, to), if one was given,
\* exactly once, and the onAfterCallback, if one was given, exactly once,
\* also when only one of the two was given.
C21_TransitionCallbacksInvoked ==
    [][StateChangingGo
          => \A i \in declaredTransition(impl.state, impl'.state) :
                LET spec == transitionConfiguration[i].value
                IN  /\ spec.onBeforeCallback # Undefined
                         => timesInvoked(calls', spec.onBeforeCallback) = 1
                    /\ spec.onAfterCallback # Undefined
                         => timesInvoked(calls', spec.onAfterCallback) = 1]_vars

\* C22: for every declared state s, whatever the names are, the
\* onEnterCallback given to addState(s) is invoked exactly once by a go that
\* makes s the current state and by no other call, and its onLeaveCallback
\* exactly once by a go that leaves s and by no other call.
C22_StateCallbacksInvoked ==
    [][\A s \in addedStates :
          /\ enterCallback(s) # Undefined
               => timesInvoked(calls', enterCallback(s))
                    = IF StateChangingGo /\ impl'.state = s THEN 1 ELSE 0
          /\ leaveCallback(s) # Undefined
               => timesInvoked(calls', leaveCallback(s))
                    = IF StateChangingGo /\ impl.state = s THEN 1 ELSE 0]_vars

\* A call of one of the configuration operations, with any arguments.
ConfigurationCall ==
    \/ \E name \in caller.names : AnyAddState(name)
    \/ \E name \in caller.names : SetInitState(name)
    \/ \E from \in caller.names, to \in caller.names : AnyAddTransition(from, to)
    \/ \E fn \in caller.errorHandlers : AddErrorHandler(fn)
    \/ Start

\* C23: a call of addState, setInitState, addTransition, addErrorHandler or
\* start() that throws, whatever the error, leaves the declared states, the
\* declared transitions with their callbacks, the init state, the error
\* handler and the stage as they were.
C23_FailedConfigurationWritesNothing ==
    [][(ConfigurationCall /\ last'.outcome # Ok)
          => UNCHANGED <<stateConfiguration, transitionConfiguration, initState,
                         errorHandler, impl, addedStates, addedTransitions>>]_vars

\* A configuration call was refused in the Configuring stage with states, a
\* transition and an init state declared.
C23_Witness ==
    /\ Configuring
    /\ last.op \in {"addState", "setInitState", "addTransition", "start"}
    /\ last.outcome \in {"DuplicateStateError", "DuplicateInitStateError",
                         "UnknownStateError", "DuplicateTransitionError"}
    /\ addedTransitions # {}
    /\ initStateRecorded

\* C24: in the Configuring stage with no init state set, setInitState(name)
\* returns for a name never added with addState and records it; a start()
\* that follows returns and makes that name the current state.
C24_InitStateNeedNotBeDeclared ==
    [][/\ \A name \in caller.names :
            (/\ Configuring
             /\ ~initStateRecorded
             /\ name \notin addedStates
             /\ SetInitState(name))
            => (last'.outcome = Ok /\ initState' = <<name>>)
       /\ (/\ Configuring
           /\ initStateRecorded
           /\ initState[1] \notin addedStates
           /\ Start)
            => (last'.outcome = Ok /\ Running' /\ impl'.state = initState[1])]_vars

\* C25: in the Configuring stage every addErrorHandler(fn) returns and makes
\* fn the handler to install, also when a handler was given before; start()
\* installs the handler given last, the default logging handler if none was
\* given.
C25_LastErrorHandlerWins ==
    [][/\ \A fn \in caller.errorHandlers :
            (Configuring /\ AddErrorHandler(fn))
            => (last'.outcome = Ok /\ errorHandler' = fn)
       /\ (\A fn \in caller.errorHandlers : ~AddErrorHandler(fn))
            => errorHandler' = errorHandler
       /\ (Configuring /\ Start /\ Running')
            => impl'.onInvalidTransition
                 = IF errorHandler = "null" THEN "defaultErrorHandler" ELSE errorHandler]_vars

\* The machine runs with a handler installed that a caller passing two
\* different handlers gave.
C25_Witness ==
    /\ Running
    /\ last.op = "start" /\ last.outcome = Ok
    /\ Cardinality(caller.errorHandlers) = 2
    /\ impl.onInvalidTransition \in caller.errorHandlers

\* The machine runs with the default handler installed.
C25_WitnessDefault ==
    /\ Running
    /\ last.op = "start" /\ last.outcome = Ok
    /\ errorHandler = "null"
    /\ impl.onInvalidTransition = "defaultErrorHandler"

\* sequence is an initial part of longer.
isPrefix(sequence, longer) ==
    /\ Len(sequence) <= Len(longer)
    /\ \A i \in 1..Len(sequence) : longer[i] = sequence[i]

\* C26: no operation changes or removes a declared state or a declared
\* transition (declarations are only added), and in the Running stage the
\* declared states and transitions, and the transition list compiled at
\* start(), stay as they were, whatever go, current and listener calls follow.
C26_TopologyImmutable ==
    [][/\ isPrefix(stateConfiguration, stateConfiguration')
       /\ isPrefix(transitionConfiguration, transitionConfiguration')
       /\ addedStates \subseteq addedStates'
       /\ addedTransitions \subseteq addedTransitions'
       /\ Running => /\ UNCHANGED <<stateConfiguration, transitionConfiguration,
                                    addedStates, addedTransitions>>
                     /\ impl'.transitions = impl.transitions
                     /\ impl'.methods = impl.methods]_vars

\* The machine has executed a transition and runs with listeners registered
\* and a listener removal called.
C26_Witness ==
    /\ Running
    /\ impl.state # initState[1]
    /\ Len(stateConfiguration) >= 2
    /\ transitionConfiguration # <<>>
    /\ last.op \in {"offEnterState", "offExitState"}
    /\ \E key \in DispatcherKeys : listenerSequence(key) # <<>>

\* C27: in the Running stage current() returns the current state and writes
\* nothing, and no call other than a go that executes a transition changes
\* the current state, so that current() calls with no such go in between
\* return the same value.
C27_CurrentIsPureRead ==
    [][Running
          => /\ Current => /\ last'.outcome = Ok
                           /\ last'.ret = impl.state
                           /\ calls' = <<>>
                           /\ UNCHANGED <<fields, history>>
             /\ ~StateChangingGo => impl'.state = impl.state
             /\ (Current /\ last.op = "current" /\ last.outcome = Ok)
                   => last'.ret = last.ret]_vars

\* current() was called after a go had executed a transition.
C27_Witness ==
    /\ Running
    /\ last.op = "current" /\ last.outcome = Ok
    /\ last.ret # initState[1]
    /\ \E key \in DispatcherKeys : listenerSequence(key) # <<>>

\* The positions of the compiled transition list that hold the triple of
\* the pair (from, to).
compiledFor(from, to) ==
    {i \in 1..Len(impl.transitions) :
        impl.transitions[i] = [name |-> transitionKey(from, to), from |-> from, to |-> to]}

\* The key go derives for to is the identifier of a compiled transition.
derivedKeyCompiled(to) ==
    \E i \in 1..Len(impl.transitions) :
        impl.transitions[i].name = transitionKey(impl.state, to)

\* C28: the transition list start() hands to the engine holds exactly one
\* triple {identifier, from, to} for every declared transition, the
\* identifier being the key derived from (from, to), and nothing else; the
\* engine starts in the designated init state; and the key go derives from
\* (current, to) is an identifier of the list if and only if (current, to)
\* is a declared transition.
C28_CompiledListMatchesTopology ==
    Running
      => /\ Len(impl.transitions) = Cardinality(addedTransitions)
         /\ \A pair \in addedTransitions :
               Cardinality(compiledFor(pair[1], pair[2])) = 1
         /\ (last.op = "start" /\ last.outcome = Ok) => impl.state = initState[1]
         /\ \A to \in caller.names :
               derivedKeyCompiled(to) <=> <<impl.state, to>> \in addedTransitions

\* C29 as stated: in every Running state the current state is a state
\* declared with addState.
C29_CurrentIsDeclaredState == Running => impl.state \in addedStates

\* C29, amended: in every Running state the current state is the name given
\* to setInitState (which need not be declared) or the target of a
\* transition that addTransition accepted.
C29_CurrentIsInitOrTarget ==
    Running => \/ impl.state = initState[1]
               \/ \E pair \in addedTransitions : pair[2] = impl.state

\* The machine has left its init state.
C29_Witness ==
    /\ Running
    /\ impl.state # initState[1]
    /\ last.op = "go" /\ last.outcome = Ok

\* C30: in the Running stage the current state changes only by a go(t) call
\* that returns, from a state s to the state t of the call, and only if a
\* transition (s, t) was declared with addTransition.
C30_ChangesFollowDeclaredEdges ==
    [][(Running /\ impl'.state # impl.state)
          => /\ <<impl.state, impl'.state>> \in addedTransitions
             /\ last'.op = "go" /\ last'.outcome = Ok
             /\ Go(impl'.state)]_vars

\* A go has moved the machine from its init state over a declared edge.
C30_Witness ==
    /\ Running
    /\ last.op = "go" /\ last.outcome = Ok
    /\ impl.state # initState[1]
    /\ <<initState[1], impl.state>> \in addedTransitions

\* The slot under which the engine invokes the error handler.
errorHandlerSlot == "onInvalidTransition"

\* C31: a go that throws (the target is not a state, or no transition leads
\* to it from the current state) invokes no callback of a state, no callback
\* of a transition and no enter or leave listener, and leaves the listener
\* sequences and the current state as they were.
C31_FailedGoInvokesNoCallback ==
    [][\A to \in caller.names :
          (Running /\ Go(to) /\ last'.outcome # Ok)
          => /\ \A i \in 1..Len(calls') : calls'[i].slot = errorHandlerSlot
             /\ handlers' = handlers
             /\ impl' = impl]_vars

\* A go was refused in a state that has a leave listener or a leave callback,
\* towards a state that has an enter listener or an enter callback.
C31_Witness ==
    /\ Running
    /\ last.op = "go" /\ last.outcome = "IllegalTransitionError"
    /\ \/ listenerSequence("onLeaveState") # <<>>
       \/ leaveCallback(impl.state) # Undefined
    /\ \/ listenerSequence("onEnterState") # <<>>
       \/ \E s \in addedStates : s # impl.state /\ enterCallback(s) # Undefined

\* The error handler was invoked by the call sequence.
errorHandlerInvoked(sequence) ==
    \E i \in 1..Len(sequence) : sequence[i].slot = errorHandlerSlot

\* C32: the error handler is invoked only by a go to a declared state other
\* than the current one over a pair that is not a declared transition: not
\* by a go that returns, not by a go to a name that was never declared, not
\* by current() and not by a configuration or listener call.  The
\* invocation is the engine's, taken from its contract.
C32_ErrorHandlerOnlyForIllegalGo ==
    [][errorHandlerInvoked(calls')
          => \E to \in caller.names :
                /\ Go(to)
                /\ Running
                /\ to \in addedStates
                /\ to # impl.state
                /\ <<impl.state, to>> \notin addedTransitions
                /\ last'.outcome = "IllegalTransitionError"]_vars

\* No transition declared with addTransition leads from s to another state.
sink(s) == \A pair \in addedTransitions : pair[1] = s => pair[2] = s

\* C33: once the machine is in a state with no declared transition to a
\* different state (an init state that was never declared included), every
\* step leaves it there: a go to that state returns and invokes nothing, a
\* go to any other name throws, current() returns that state, and the state
\* still has no transition to a different state afterwards.
C33_SinkStateIsFinal ==
    [][(Running /\ sink(impl.state))
          => /\ impl'.state = impl.state
             /\ sink(impl.state)'
             /\ \A to \in caller.names :
                   Go(to) => \/ last'.outcome # Ok
                             \/ to = impl.state /\ calls' = <<>>
             /\ Current => last'.ret = impl.state]_vars

\* The machine has moved over a declared transition into a state with no
\* transition to a different state, and a go from there was refused.
C33_Witness ==
    /\ Running
    /\ sink(impl.state)
    /\ impl.state # initState[1]
    /\ last.op = "go" /\ last.outcome = "IllegalTransitionError"

\* The machine was started in an init state that was never declared, which
\* no transition leaves, and a go from there was refused.
C33_WitnessUndeclaredInit ==
    /\ Running
    /\ impl.state \notin addedStates
    /\ sink(impl.state)
    /\ last.op = "go" /\ last.outcome # Ok

\* C34: the enter and the leave listener sequences are independent:
\* onEnterState and offEnterState leave the leave sequence as it was,
\* onExitState and offExitState leave the enter sequence as it was, and in
\* the Running stage onEnterState(h) (onExitState(h)) throws
\* DuplicateHandlerError if h is in the enter (leave) sequence and returns
\* otherwise, whatever the other sequence holds.
C34_ListenerSequencesIndependent ==
    [][/\ \A h \in caller.enterListeners :
            /\ (OnEnterState(h) \/ OffEnterState(h))
               => /\ listenerSequence("onLeaveState")' = listenerSequence("onLeaveState")
                  /\ registered'.onLeaveState = registered.onLeaveState
            /\ (Running /\ OnEnterState(h))
               => last'.outcome = IF contains(listenerSequence("onEnterState"), h)
                                  THEN "DuplicateHandlerError" ELSE Ok
       /\ \A h \in caller.exitListeners :
            /\ (OnExitState(h) \/ OffExitState(h))
               => /\ listenerSequence("onEnterState")' = listenerSequence("onEnterState")
                  /\ registered'.onEnterState = registered.onEnterState
            /\ (Running /\ OnExitState(h))
               => last'.outcome = IF contains(listenerSequence("onLeaveState"), h)
                                  THEN "DuplicateHandlerError" ELSE Ok]_vars

\* The same listener is in both sequences: the registration that put it in
\* the second one returned.
C34_Witness ==
    /\ Running
    /\ \E h \in caller.enterListeners \cap caller.exitListeners :
          /\ contains(listenerSequence("onEnterState"), h)
          /\ contains(listenerSequence("onLeaveState"), h)
    /\ last.op \in {"onEnterState", "onExitState"}
    /\ last.outcome = Ok

\* C35: the method table compiled by start() has one entry per callback
\* given to addState and addTransition and one per global dispatcher, each
\* under a name of its own, for all declared state names: no two callbacks
\* share a method name and none has the name of a dispatcher.
C35_MethodTableOneEntryPerCallback ==
    Running
    => Cardinality(DOMAIN impl.methods)
         = Len(transitionMethods(transitionConfiguration))
             + Len(stateMethods(stateConfiguration))
             + Len(dispatcherMethods)

=============================================================================
